---- MODULE Spec2Model ----
(***************************************************************************)
(* A model of pylib/versions.py: the VersionUpdateTypes enumeration, the   *)
(* Version base class (determine_greatest_update_type and                  *)
(* determine_update_types), SemanticVersion, JenkinsVersion and            *)
(* JenkinsVersion.from_docker_image.                                       *)
(*                                                                         *)
(* Python strings are sequences of one-character strings.  The regular     *)
(* expressions are matched position by position over those sequences,      *)
(* int() and the f-string conversion of an int are computed digit by       *)
(* digit.                                                                  *)
(***************************************************************************)
EXTENDS Integers, Sequences, FiniteSets, TLC

\* ------------------------------------------------------------------------
\* Bounds of the model
\* ------------------------------------------------------------------------

\* longest list of update types handed to determine_greatest_update_type
MaxVersions == 4

\* longest version string handed to a constructor
MaxLen == 4

\* most set_*/increment_* calls made on one SemanticVersion
MaxCalls == 2

\* longest "Env" list of a pulled image
MaxEnv == 2

\* characters the version strings are built from
Alphabet == {"0", "1", ".", "-", "+", "a"}

\* arguments handed to set_* and increment_*
Args == {-1, 0, 1, 2}

\* ------------------------------------------------------------------------
\* Python values
\* ------------------------------------------------------------------------

\* Python's None, where a name is bound to an enumeration member or to None
None == "None"

MAJOR == "MAJOR"

MINOR == "MINOR"

PATCH == "PATCH"

RESEAT == "RESEAT"

VersionUpdateTypes == {MAJOR, MINOR, PATCH, RESEAT}

\* the set of the elements of a list
Range(s) == {s[i] : i \in 1..Len(s)}

\* all lists over S of length at most n
SeqsUpTo(S, n) == UNION {[1..k -> S] : k \in 0..n}

\* abs()
Abs(x) == IF x < 0 THEN 0 - x ELSE x

\* ------------------------------------------------------------------------
\* Character classes of the regular expressions
\* ------------------------------------------------------------------------

DigitStr == <<"0", "1", "2", "3", "4", "5", "6", "7", "8", "9">>

\* \d
DigitChars == Range(DigitStr)

\* [a-zA-Z]
LetterChars ==
    {"a", "b", "c", "d", "e", "f", "g", "h", "i", "j", "k", "l", "m",
     "n", "o", "p", "q", "r", "s", "t", "u", "v", "w", "x", "y", "z",
     "A", "B", "C", "D", "E", "F", "G", "H", "I", "J", "K", "L", "M",
     "N", "O", "P", "Q", "R", "S", "T", "U", "V", "W", "X", "Y", "Z"}

\* [0-9a-zA-Z-]
IdentChars == DigitChars \cup LetterChars \cup {"-"}

\* \w
WordChars == DigitChars \cup LetterChars \cup {"_"}

\* ------------------------------------------------------------------------
\* int(str) and str(int)
\* ------------------------------------------------------------------------

DigitVal(c) == (CHOOSE d \in 1..10 : DigitStr[d] = c) - 1

RECURSIVE IntOf(_)
\* int(s) for a non-empty string of decimal digits
IntOf(s) ==
    IF Len(s) = 0 THEN 0
    ELSE 10 * IntOf(SubSeq(s, 1, Len(s) - 1)) + DigitVal(s[Len(s)])

RECURSIVE NatStr(_)
NatStr(n) ==
    IF n < 10 THEN <<DigitStr[n + 1]>>
    ELSE NatStr(n \div 10) \o <<DigitStr[(n % 10) + 1]>>

\* f"{n}" for an int n
IntStr(n) == IF n < 0 THEN <<"-">> \o NatStr(0 - n) ELSE NatStr(n)

\* ------------------------------------------------------------------------
\* The regular expressions.  A position is an index into the string; a
\* matcher returns the position after what it matched, or 0 when it cannot
\* match.
\* ------------------------------------------------------------------------

NoMatch == 0

RECURSIVE RunEnd(_, _, _)
\* the position after the longest run of characters of Class starting at i
RunEnd(s, i, Class) ==
    IF i <= Len(s) /\ s[i] \in Class THEN RunEnd(s, i + 1, Class) ELSE i

\* (0|[1-9]\d*) at position i
NumEnd(s, i) ==
    IF i > Len(s) THEN NoMatch
    ELSE IF s[i] = "0" THEN i + 1
    ELSE IF s[i] \in DigitChars THEN RunEnd(s, i + 1, DigitChars)
    ELSE NoMatch

\* \. at position i
DotEnd(s, i) ==
    IF i # NoMatch /\ i <= Len(s) /\ s[i] = "." THEN i + 1 ELSE NoMatch

\* 0|[1-9]\d*|\d*[a-zA-Z-][0-9a-zA-Z-]* : one pre-release identifier
IsPreIdent(t) ==
    /\ Len(t) > 0
    /\ \/ t = <<"0">>
       \/ t[1] \in DigitChars \ {"0"} /\ Range(t) \subseteq DigitChars
       \/ Range(t) \subseteq IdentChars /\ ~(Range(t) \subseteq DigitChars)

\* [0-9a-zA-Z-]+ : one build identifier
IsBuildIdent(t) == Len(t) > 0 /\ Range(t) \subseteq IdentChars

RECURSIVE IdentsEnd(_, _, _)
\* ident(?:\.ident)* at position i, the identifiers being pre-release
\* identifiers (pre) or build identifiers
IdentsEnd(s, i, pre) ==
    LET j == RunEnd(s, i, IdentChars)
        t == SubSeq(s, i, j - 1)
        ok == IF pre THEN IsPreIdent(t) ELSE IsBuildIdent(t)
    IN  IF ~ok THEN NoMatch
        ELSE IF j <= Len(s) /\ s[j] = "." THEN IdentsEnd(s, j + 1, pre)
        ELSE j

\* $ : the end of the string, or just before a newline that ends it
AtEnd(s, i) == i = Len(s) + 1 \/ (i = Len(s) /\ s[i] = "\n")

\* (?:-(pre-release))?(?:\+(build))?$ at position i
SuffixMatches(s, i) ==
    LET p == IF i <= Len(s) /\ s[i] = "-" THEN IdentsEnd(s, i + 1, TRUE) ELSE i
        b == IF p # NoMatch /\ p <= Len(s) /\ s[p] = "+"
             THEN IdentsEnd(s, p + 1, FALSE) ELSE p
    IN  b # NoMatch /\ AtEnd(s, b)

\* the match object of re.match: matched is FALSE for None; g1, g2, g3 are
\* the capture groups 1, 2 and 3, and has3 is FALSE when group 3 is None
NoMatchObject ==
    [matched |-> FALSE, g1 |-> << >>, g2 |-> << >>, g3 |-> << >>, has3 |-> FALSE]

MatchObject(a, b, c, has) ==
    [matched |-> TRUE, g1 |-> a, g2 |-> b, g3 |-> c, has3 |-> has]

\* re.match(SEMANTIC_VERSION_REGEX, version)
SemanticMatch(s) ==
    LET e1 == NumEnd(s, 1)
        d1 == DotEnd(s, e1)
        e2 == IF d1 = NoMatch THEN NoMatch ELSE NumEnd(s, d1)
        d2 == DotEnd(s, e2)
        e3 == IF d2 = NoMatch THEN NoMatch ELSE NumEnd(s, d2)
    IN  IF e3 # NoMatch /\ SuffixMatches(s, e3)
        THEN MatchObject(SubSeq(s, 1, e1 - 1), SubSeq(s, d1, e2 - 1),
                         SubSeq(s, d2, e3 - 1), TRUE)
        ELSE NoMatchObject

\* re.match(JENKINS_VERSION_REGEX, version): the optional group 3 is tried
\* first with the patch and then without it
JenkinsMatch(s) ==
    LET e1 == NumEnd(s, 1)
        d1 == DotEnd(s, e1)
        e2 == IF d1 = NoMatch THEN NoMatch ELSE NumEnd(s, d1)
        d2 == DotEnd(s, e2)
        e3 == IF d2 = NoMatch THEN NoMatch ELSE NumEnd(s, d2)
    IN  IF e3 # NoMatch /\ SuffixMatches(s, e3)
        THEN MatchObject(SubSeq(s, 1, e1 - 1), SubSeq(s, d1, e2 - 1),
                         SubSeq(s, d2, e3 - 1), TRUE)
        ELSE IF e2 # NoMatch /\ SuffixMatches(s, e2)
        THEN MatchObject(SubSeq(s, 1, e1 - 1), SubSeq(s, d1, e2 - 1), << >>, FALSE)
        ELSE NoMatchObject

\* ------------------------------------------------------------------------
\* class Version
\* ------------------------------------------------------------------------

\* GreatestStep with the PATCH branch taken whatever greatest holds
GreatestStepPatchAlways(greatest, version) ==
    IF version = RESEAT /\ greatest # PATCH /\ greatest # MINOR /\ greatest # MAJOR
    THEN greatest
    ELSE IF version = PATCH
    THEN PATCH
    ELSE IF version = MINOR /\ greatest # MAJOR
    THEN MINOR
    ELSE IF version = MAJOR
    THEN MAJOR
    ELSE greatest

\* one pass of the loop body of determine_greatest_update_type: the value of
\* greatest after the if/elif chain has seen version
GreatestStep(greatest, version) ==
    IF version = RESEAT /\ greatest # PATCH /\ greatest # MINOR /\ greatest # MAJOR
    THEN greatest
    ELSE IF version = PATCH /\ greatest # MINOR /\ greatest # MAJOR
    THEN PATCH
    ELSE IF version = MINOR /\ greatest # MAJOR
    THEN MINOR
    ELSE IF version = MAJOR
    THEN MAJOR
    ELSE greatest

RECURSIVE GreatestFromLast(_, _)
\* GreatestFrom keeping the kind seen last instead of the one ranked highest
GreatestFromLast(greatest, rest) ==
    IF rest = << >> THEN greatest
    ELSE GreatestFromLast(IF Head(rest) = RESEAT THEN greatest ELSE Head(rest),
                          Tail(rest))

RECURSIVE GreatestFrom(_, _)
\* the for loop of determine_greatest_update_type over what is left of the list
GreatestFrom(greatest, rest) ==
    IF rest = << >> THEN greatest
    ELSE GreatestFrom(GreatestStep(greatest, Head(rest)), Tail(rest))

\* Version.determine_greatest_update_type(versions)
determine_greatest_update_type(vs) == GreatestFrom(None, vs)

\* determine_update_types without abs(): a difference below zero is missed
determine_update_types_signed(self, v1) ==
    LET t1 == IF self.major - v1.major > 0 THEN <<MAJOR>> ELSE << >>
        t2 == IF self.minor - v1.minor > 0 THEN t1 \o <<MINOR>> ELSE t1
        t3 == IF self.patch - v1.patch > 0 THEN t2 \o <<PATCH>> ELSE t2
    IN  t3

\* Version.determine_update_types(self, v1)
determine_update_types(self, v1) ==
    LET t1 == IF Abs(self.major - v1.major) > 0 THEN <<MAJOR>> ELSE << >>
        t2 == IF Abs(self.minor - v1.minor) > 0 THEN t1 \o <<MINOR>> ELSE t1
        t3 == IF Abs(self.patch - v1.patch) > 0 THEN t2 \o <<PATCH>> ELSE t2
    IN  t3

\* ------------------------------------------------------------------------
\* Instances.  attrs is the set of the attributes assigned so far;
\* patch_group records whether capture group 3 took part in the match the
\* instance was built from.
\* ------------------------------------------------------------------------

SemanticVersion == "SemanticVersion"

JenkinsVersion == "JenkinsVersion"

Classes == {SemanticVersion, JenkinsVersion}

\* an instance before __init__ has assigned anything
NewObject(c) ==
    [cls |-> c, attrs |-> {}, major |-> 0, minor |-> 0, patch |-> 0,
     patch_group |-> FALSE]

\* no instance at all
NoObject == NewObject(None)

\* the outcome of a call: the exception it raised (None when it returned)
\* and the instance it left
Raised(e, o) == [exc |-> e, obj |-> o]

Returned(o) == [exc |-> None, obj |-> o]

\* ------------------------------------------------------------------------
\* class SemanticVersion
\* ------------------------------------------------------------------------

\* SemanticVersion.__init__(self, version): subscripting the None of a
\* failed match raises TypeError before any attribute is assigned
SemanticInit(version) ==
    LET semantic_groups == SemanticMatch(version)
        self == NewObject(SemanticVersion)
    IN  IF ~semantic_groups.matched THEN Raised("TypeError", self)
        ELSE Returned([self EXCEPT !.attrs = {"major", "minor", "patch"},
                                   !.major = IntOf(semantic_groups.g1),
                                   !.minor = IntOf(semantic_groups.g2),
                                   !.patch = IntOf(semantic_groups.g3),
                                   !.patch_group = TRUE])

set_major(self, to) == [self EXCEPT !.major = to]

set_minor(self, to) == [self EXCEPT !.minor = to]

set_patch(self, to) == [self EXCEPT !.patch = to]

increment_major(self, by) == [self EXCEPT !.major = self.major + by]

increment_minor(self, by) == [self EXCEPT !.minor = self.minor + by]

\* increment_patch taking by away instead of adding it
increment_patch_down(self, by) == [self EXCEPT !.patch = self.patch - by]

increment_patch(self, by) == [self EXCEPT !.patch = self.patch + by]

\* f"{self.major}.{self.minor}.{self.patch}"
Dotted3(self) ==
    IntStr(self.major) \o <<".">> \o IntStr(self.minor) \o <<".">>
        \o IntStr(self.patch)

\* SemanticVersion.__eq__(self, v)
SemanticEq(self, v) == Dotted3(self) = Dotted3(v)

\* SemanticVersion.__str__(self)
SemanticStr(self) == Dotted3(self)

\* ------------------------------------------------------------------------
\* class JenkinsVersion
\* ------------------------------------------------------------------------

IMPLICIT_PATCH_CHANGE_VERSION == -1

\* JenkinsVersion.__init__ reading an absent patch as patch 0
JenkinsInitZeroPatch(version) ==
    LET version_groups == JenkinsMatch(version)
        self == NewObject(JenkinsVersion)
    IN  IF ~version_groups.matched THEN Raised("TypeError", self)
        ELSE Returned([self EXCEPT !.attrs = {"major", "minor", "patch"},
                                   !.major = IntOf(version_groups.g1),
                                   !.minor = IntOf(version_groups.g2),
                                   !.patch =
                                       IF ~version_groups.has3 THEN 0
                                       ELSE IntOf(version_groups.g3),
                                   !.patch_group = version_groups.has3])

\* JenkinsVersion.__init__(self, version): "not self.patch" is true of the
\* None of a group that did not take part (and of no matched group, which
\* has at least one digit)
JenkinsInit(version) ==
    LET version_groups == JenkinsMatch(version)
        self == NewObject(JenkinsVersion)
    IN  IF ~version_groups.matched THEN Raised("TypeError", self)
        ELSE Returned([self EXCEPT !.attrs = {"major", "minor", "patch"},
                                   !.major = IntOf(version_groups.g1),
                                   !.minor = IntOf(version_groups.g2),
                                   !.patch =
                                       IF ~version_groups.has3 \/ version_groups.g3 = << >>
                                       THEN IMPLICIT_PATCH_CHANGE_VERSION
                                       ELSE IntOf(version_groups.g3),
                                   !.patch_group = version_groups.has3])

\* JenkinsVersion.__eq__(self, v)
JenkinsEq(self, v) == Dotted3(self) = Dotted3(v)

\* JenkinsVersion.__str__ rendering the patch whatever it holds
JenkinsStrAlwaysPatch(self) == Dotted3(self)

\* JenkinsVersion.__str__(self)
JenkinsStr(self) ==
    IF self.patch = IMPLICIT_PATCH_CHANGE_VERSION
    THEN IntStr(self.major) \o <<".">> \o IntStr(self.minor)
    ELSE Dotted3(self)

\* cls(version)
Construct(c, version) ==
    IF c = SemanticVersion THEN SemanticInit(version) ELSE JenkinsInit(version)

\* str(self)
Str(self) == IF self.cls = SemanticVersion THEN SemanticStr(self) ELSE JenkinsStr(self)

\* self == v
Eq(self, v) ==
    IF self.cls = SemanticVersion THEN SemanticEq(self, v) ELSE JenkinsEq(self, v)

\* ------------------------------------------------------------------------
\* JenkinsVersion.from_docker_image
\* ------------------------------------------------------------------------

JENKINS_VERSION_ENV_VAR_NAME ==
    <<"J", "E", "N", "K", "I", "N", "S", "_", "V", "E", "R", "S", "I", "O", "N">>

RECURSIVE IndexFrom(_, _, _)
\* the first position at or after i where c stands in s, or 0
IndexFrom(s, c, i) ==
    IF i > Len(s) THEN 0
    ELSE IF s[i] = c THEN i
    ELSE IndexFrom(s, c, i + 1)

RECURSIVE Split(_, _)
\* s.split(sep) for a one-character sep
Split(s, sep) ==
    LET k == IndexFrom(s, sep, 1)
    IN  IF k = 0 THEN <<s>>
        ELSE <<SubSeq(s, 1, k - 1)>> \o Split(SubSeq(s, k + 1, Len(s)), sep)

\* re.compile(_ENV_VAR_REGEX).search(env_var) for ^[a-zA-Z_]\w*=.+
EnvVarSearch(env_var) ==
    /\ Len(env_var) >= 1
    /\ env_var[1] \in LetterChars \cup {"_"}
    /\ LET j == RunEnd(env_var, 2, WordChars)
       IN  /\ j + 1 <= Len(env_var)
           /\ env_var[j] = "="
           /\ env_var[j + 1] # "\n"

RECURSIVE ScanEnv(_, _)
\* the for loop of from_docker_image from entry i on, and the raise after it
ScanEnv(env, i) ==
    IF i > Len(env) THEN Raised("NoJenkinsVersionFoundError", NoObject)
    ELSE IF /\ EnvVarSearch(env[i])
            /\ JENKINS_VERSION_ENV_VAR_NAME = Split(env[i], "=")[1]
    THEN JenkinsInit(Split(env[i], "=")[2])
    ELSE ScanEnv(env, i + 1)

\* ------------------------------------------------------------------------
\* Inputs
\* ------------------------------------------------------------------------

\* how a version string may begin
Heads == {<< >>} \cup {<<m, ".", n>> : m, n \in {"0", "1"}}

\* the version strings handed to the constructors
Strings == {h \o t : h \in Heads, t \in SeqsUpTo(Alphabet, MaxLen)}

\* what the constructor of class c does on the version strings: the outcomes
\* of c(s) over every s of Strings
Constructions == [c \in Classes |-> {Construct(c, s) : s \in Strings}]

\* the entries of an image's "Env" list: a name, "=" or nothing, a value
EnvNames == {JENKINS_VERSION_ENV_VAR_NAME, <<"P">>, << >>}

EnvValues ==
    {<< >>, <<"1", ".", "0">>, <<"0", ".", "1", ".", "0">>, <<"a">>,
     <<"1", ".", "0", "=", "a">>}

EnvEntries ==
    {n \o e \o v : n \in EnvNames, e \in {<< >>, <<"=">>}, v \in EnvValues}

\* ------------------------------------------------------------------------
\* State
\* ------------------------------------------------------------------------

VARIABLES
    pc,                \* where the caller stands
    versions,          \* the argument of determine_greatest_update_type
    greatest,          \* what determine_greatest_update_type returned
    cls,               \* the class being constructed
    version,           \* the argument of the constructor
    self,              \* the instance constructed first
    v1,                \* the instance constructed second
    exc,               \* the exception the last call raised, or None
    calls,             \* the set_*/increment_* calls made on self, in order
    update_types,      \* what determine_update_types returned
    equal,             \* what self == v1 returned
    rendered,          \* what str(self) returned
    image_env,         \* the "Env" list of the image in the registry
    jenkins_env_vars,  \* the local of from_docker_image
    client_calls       \* the calls made on docker_client.images, in order

greatestVars == <<versions, greatest>>

objectVars == <<cls, version, self, v1, exc, calls>>

resultVars == <<update_types, equal, rendered>>

dockerVars == <<image_env, jenkins_env_vars, client_calls>>

vars == <<pc, greatestVars, objectVars, resultVars, dockerVars>>

\* what the variables hold before anything is called
IdleGreatest == versions = << >> /\ greatest = None

IdleObjects ==
    /\ cls = None
    /\ version = << >>
    /\ self = NoObject
    /\ v1 = NoObject
    /\ exc = None
    /\ calls = << >>

IdleResults == update_types = << >> /\ equal = FALSE /\ rendered = << >>

IdleDocker == image_env = << >> /\ jenkins_env_vars = << >> /\ client_calls = << >>

\* where the caller stands after a call that left exception e
After(e, returned) == IF e = None THEN returned ELSE "raised"

\* ------------------------------------------------------------------------
\* Version.determine_greatest_update_type on every list of update types
\* ------------------------------------------------------------------------

InitGreatest ==
    /\ pc = "call"
    /\ versions \in SeqsUpTo(VersionUpdateTypes, MaxVersions)
    /\ greatest = None
    /\ IdleObjects /\ IdleResults /\ IdleDocker

DetermineGreatestUpdateType ==
    /\ pc = "call"
    /\ greatest' = determine_greatest_update_type(versions)
    /\ pc' = "returned"
    /\ UNCHANGED <<versions, objectVars, resultVars, dockerVars>>

NextGreatest == DetermineGreatestUpdateType

SpecGreatest == InitGreatest /\ [][NextGreatest]_vars

\* ------------------------------------------------------------------------
\* One constructor call on every version string
\* ------------------------------------------------------------------------

InitConstruct ==
    /\ pc = "call"
    /\ cls \in Classes
    /\ version \in Strings
    /\ self = NoObject /\ v1 = NoObject /\ exc = None /\ calls = << >>
    /\ IdleGreatest /\ IdleResults /\ IdleDocker

\* cls(version)
New ==
    /\ pc = "call"
    /\ LET r == Construct(cls, version)
       IN  /\ self' = r.obj
           /\ exc' = r.exc
           /\ pc' = After(r.exc, "returned")
    /\ UNCHANGED <<cls, version, v1, calls, greatestVars, resultVars, dockerVars>>

NextConstruct == New

SpecConstruct == InitConstruct /\ [][NextConstruct]_vars

\* ------------------------------------------------------------------------
\* An instance and the calls of its set_* and increment_* methods
\* ------------------------------------------------------------------------

InitObjects ==
    /\ pc = "new"
    /\ IdleObjects /\ IdleGreatest /\ IdleResults /\ IdleDocker

\* self = c(s) for a class c and a version string s
NewSelf ==
    /\ pc = "new"
    /\ \E c \in Classes :
         \E r \in Constructions[c] :
             /\ cls' = c
             /\ self' = r.obj
             /\ exc' = r.exc
             /\ pc' = After(r.exc, "ready")
    /\ UNCHANGED <<version, v1, calls, greatestVars, resultVars, dockerVars>>

\* a call of a method of SemanticVersion on self: the instance it leaves
Called(method, arg, after) ==
    /\ pc = "ready"
    /\ self.cls = SemanticVersion
    /\ Len(calls) < MaxCalls
    /\ self' = after
    /\ calls' = Append(calls, [method |-> method, arg |-> arg])
    /\ UNCHANGED <<pc, cls, version, v1, exc, greatestVars, resultVars, dockerVars>>

SetMajor == \E to \in Args : Called("set_major", to, set_major(self, to))

SetMinor == \E to \in Args : Called("set_minor", to, set_minor(self, to))

SetPatch == \E to \in Args : Called("set_patch", to, set_patch(self, to))

IncrementMajor == \E by \in Args : Called("increment_major", by, increment_major(self, by))

IncrementMinor == \E by \in Args : Called("increment_minor", by, increment_minor(self, by))

IncrementPatch == \E by \in Args : Called("increment_patch", by, increment_patch(self, by))

NextMutate ==
    \/ NewSelf
    \/ SetMajor
    \/ SetMinor
    \/ SetPatch
    \/ IncrementMajor
    \/ IncrementMinor
    \/ IncrementPatch

SpecMutate == InitObjects /\ [][NextMutate]_vars

\* ------------------------------------------------------------------------
\* Two instances of one class: determine_update_types, == and str
\* ------------------------------------------------------------------------

\* v1 = cls(s) for a version string s
NewV1 ==
    /\ pc = "ready"
    /\ \E r \in Constructions[cls] :
         /\ v1' = r.obj
         /\ exc' = r.exc
         /\ pc' = After(r.exc, "both")
    /\ UNCHANGED <<cls, version, self, calls, greatestVars, resultVars, dockerVars>>

\* self.determine_update_types(v1)
DetermineUpdateTypes ==
    /\ pc = "both"
    /\ update_types' = determine_update_types(self, v1)
    /\ pc' = "diffed"
    /\ UNCHANGED <<equal, rendered, objectVars, greatestVars, dockerVars>>

\* self == v1
Equals ==
    /\ pc = "both"
    /\ equal' = Eq(self, v1)
    /\ pc' = "compared"
    /\ UNCHANGED <<update_types, rendered, objectVars, greatestVars, dockerVars>>

\* str(self)
Render ==
    /\ pc = "both"
    /\ rendered' = Str(self)
    /\ pc' = "rendered"
    /\ UNCHANGED <<update_types, equal, objectVars, greatestVars, dockerVars>>

NextCompare ==
    \/ NewSelf
    \/ NewV1
    \/ DetermineUpdateTypes
    \/ Equals
    \/ Render

SpecCompare == InitObjects /\ [][NextCompare]_vars

\* ------------------------------------------------------------------------
\* JenkinsVersion.from_docker_image(docker_client, docker_image)
\* ------------------------------------------------------------------------

InitDocker ==
    /\ pc = "pull"
    /\ image_env \in SeqsUpTo(EnvEntries, MaxEnv)
    /\ jenkins_env_vars = << >>
    /\ client_calls = << >>
    /\ IdleObjects /\ IdleGreatest /\ IdleResults

\* docker_client.images.pull(docker_image).attrs["Config"]["Env"]: the
\* client raises, or hands over the image's list
Pull ==
    /\ pc = "pull"
    /\ client_calls' = Append(client_calls, "pull")
    /\ \/ /\ exc' = "APIError"
          /\ pc' = "raised"
          /\ UNCHANGED jenkins_env_vars
       \/ /\ jenkins_env_vars' = image_env
          /\ pc' = "remove"
          /\ UNCHANGED exc
    /\ UNCHANGED <<image_env, cls, version, self, v1, calls, greatestVars, resultVars>>

\* from_docker_image without its call of docker_client.images.remove
RemoveSkipped ==
    /\ pc = "remove"
    /\ pc' = "scan"
    /\ UNCHANGED <<greatestVars, objectVars, resultVars, dockerVars>>

\* docker_client.images.remove(docker_image): the client raises, or returns
Remove ==
    /\ pc = "remove"
    /\ client_calls' = Append(client_calls, "remove")
    /\ \/ exc' = "APIError" /\ pc' = "raised"
       \/ pc' = "scan" /\ UNCHANGED exc
    /\ UNCHANGED <<image_env, jenkins_env_vars, cls, version, self, v1, calls,
                   greatestVars, resultVars>>

\* the for loop over jenkins_env_vars and the raise that follows it
Scan ==
    /\ pc = "scan"
    /\ LET r == ScanEnv(jenkins_env_vars, 1)
       IN  /\ self' = r.obj
           /\ exc' = r.exc
           /\ pc' = After(r.exc, "returned")
    /\ UNCHANGED <<cls, version, v1, calls, greatestVars, resultVars, dockerVars>>

NextDocker ==
    \/ Pull
    \/ Remove
    \/ Scan

SpecDocker == InitDocker /\ [][NextDocker]_vars

\* ------------------------------------------------------------------------
\* Properties
\* ------------------------------------------------------------------------

\* C1: for every list handed to determine_greatest_update_type, the result
\* is MAJOR when the list holds a MAJOR, MINOR when it holds a MINOR and no
\* MAJOR, PATCH when it holds a PATCH and neither of the two, wherever the
\* deciding kind stands and whatever stands around it.
C1_PriorityLaw ==
    pc = "returned" =>
        LET kinds == Range(versions)
        IN  /\ MAJOR \in kinds => greatest = MAJOR
            /\ MAJOR \notin kinds /\ MINOR \in kinds => greatest = MINOR
            /\ MAJOR \notin kinds /\ MINOR \notin kinds /\ PATCH \in kinds
                   => greatest = PATCH

C1_Witness ==
    /\ pc = "returned"
    /\ versions = <<RESEAT, MINOR, PATCH, RESEAT>>
    /\ greatest = MINOR

\* C2: for every non-empty list the result is a kind of the list, and a
\* list of RESEAT alone gives RESEAT; None is returned for the empty list
\* only.
C2_ResultIsPresentKind ==
    pc = "returned" /\ versions # << >> =>
        /\ greatest \in Range(versions)
        /\ Range(versions) = {RESEAT} => greatest = RESEAT

\* C3: two lists that hold the same set of kinds, in any order and with any
\* repetitions, give the same result, and the empty list gives None.
C3_OrderAndDuplicateInsensitive ==
    pc = "returned" =>
        /\ \A other \in SeqsUpTo(VersionUpdateTypes, MaxVersions) :
               Range(other) = Range(versions)
                   => determine_greatest_update_type(other) = greatest
        /\ versions = << >> => greatest = None

C3_Witness ==
    /\ pc = "returned"
    /\ versions = <<PATCH, MAJOR, PATCH, MINOR>>
    /\ greatest = MAJOR
    /\ determine_greatest_update_type(<<MINOR, MAJOR, PATCH>>) = MAJOR

\* the place of a kind in the order MAJOR, MINOR, PATCH
Rank(k) == IF k = MAJOR THEN 1 ELSE IF k = MINOR THEN 2 ELSE IF k = PATCH THEN 3 ELSE 4

\* C4: self.determine_update_types(v1) holds MAJOR iff the majors differ,
\* MINOR iff the minors differ, PATCH iff the patches differ, each at most
\* once and in the order MAJOR, MINOR, PATCH, never RESEAT, and is empty
\* exactly when no component differs.
C4_UpdateTypesAreTheDifferingComponents ==
    pc = "diffed" =>
        /\ MAJOR \in Range(update_types) <=> self.major # v1.major
        /\ MINOR \in Range(update_types) <=> self.minor # v1.minor
        /\ PATCH \in Range(update_types) <=> self.patch # v1.patch
        /\ RESEAT \notin Range(update_types)
        /\ \A i, j \in 1..Len(update_types) :
               i < j => Rank(update_types[i]) < Rank(update_types[j])
        /\ update_types = << >> <=>
               /\ self.major = v1.major
               /\ self.minor = v1.minor
               /\ self.patch = v1.patch

C4_Witness ==
    /\ pc = "diffed"
    /\ cls = SemanticVersion
    /\ self.major < v1.major
    /\ self.minor = v1.minor
    /\ self.patch > v1.patch
    /\ update_types = <<MAJOR, PATCH>>

\* C5: of two JenkinsVersion values of which exactly one was built without
\* a patch component, determine_update_types holds PATCH whatever the patch
\* of the other; of two both built without one it does not, and it is
\* exactly [MINOR] when only their minors differ.
C5_AbsentPatchIsDetected ==
    pc = "diffed" /\ cls = JenkinsVersion =>
        /\ self.patch_group # v1.patch_group => PATCH \in Range(update_types)
        /\ ~self.patch_group /\ ~v1.patch_group =>
               /\ PATCH \notin Range(update_types)
               /\ self.major = v1.major /\ self.minor # v1.minor
                      => update_types = <<MINOR>>

C5_Witness ==
    /\ pc = "diffed"
    /\ cls = JenkinsVersion
    /\ ~self.patch_group
    /\ v1.patch_group /\ v1.patch = 0
    /\ self.major = v1.major /\ self.minor = v1.minor
    /\ update_types = <<PATCH>>

\* whether version matches the grammar of class c
MatchesGrammar(c, s) ==
    IF c = SemanticVersion THEN SemanticMatch(s).matched ELSE JenkinsMatch(s).matched

\* C6: constructing either class from a string that does not match its
\* grammar fails with the dedicated ParseError, and leaves no instance with
\* major, minor or patch assigned.
C6_ParseErrorOnInvalidString ==
    pc # "call" /\ ~MatchesGrammar(cls, version) =>
        /\ pc = "raised"
        /\ exc = "ParseError"
        /\ self.attrs = {}

\* C7: whenever the pull succeeded, the image has been removed exactly once,
\* after the pull, by the time from_docker_image returns a version, raises
\* NoJenkinsVersionFoundError or fails on a value that does not parse.
C7_RemovedOnceAfterPull ==
    /\ client_calls \in {<< >>, <<"pull">>, <<"pull", "remove">>}
    /\ \/ pc = "returned"
       \/ pc = "raised" /\ exc \in {"NoJenkinsVersionFoundError", "TypeError"}
       => client_calls = <<"pull", "remove">>

C7_Witness ==
    /\ pc = "raised"
    /\ exc = "TypeError"
    /\ Len(jenkins_env_vars) > 0
    /\ client_calls = <<"pull", "remove">>

\* C8 as stated: every constructed value has major, minor and patch defined
\* and not negative, also after any set_* and increment_* calls.
C8_AlwaysNonNegative ==
    pc = "ready" =>
        /\ self.attrs = {"major", "minor", "patch"}
        /\ self.major >= 0 /\ self.minor >= 0 /\ self.patch >= 0

\* C8, amended: every constructed value has major, minor and patch defined.
\* A SemanticVersion has all three not negative as long as every set_* and
\* increment_* call made on it had an argument that is not negative.  A
\* JenkinsVersion has major and minor not negative, and its patch is not
\* negative when built with a patch component and is -1 when built without.
C8_NonNegativeButForTheAbsentPatch ==
    pc = "ready" =>
        /\ self.attrs = {"major", "minor", "patch"}
        /\ self.cls = SemanticVersion
               /\ (\A i \in 1..Len(calls) : calls[i].arg >= 0)
               => self.major >= 0 /\ self.minor >= 0 /\ self.patch >= 0
        /\ self.cls = JenkinsVersion =>
               /\ self.major >= 0 /\ self.minor >= 0
               /\ IF self.patch_group THEN self.patch >= 0 ELSE self.patch = -1

C8_Witness ==
    /\ pc = "ready"
    /\ self.cls = SemanticVersion
    /\ Len(calls) >= 2
    /\ calls[1] = [method |-> "set_minor", arg |-> 0]
    /\ calls[2] = [method |-> "increment_patch", arg |-> 1]
    /\ self.minor = 0
    /\ self.patch >= 1

\* how many times c stands in s
Count(s, c) == Cardinality({i \in 1..Len(s) : s[i] = c})

\* C9: a JenkinsVersion built without a patch component renders as
\* "{major}.{minor}" and one built with a patch p, 0 included, as
\* "{major}.{minor}.{p}"; two are equal iff major and minor are equal and
\* both lack a patch or both have the same patch, so that one lacking a
\* patch never equals one that has a patch.
C9_AbsentPatchRendersAndCompares ==
    cls = JenkinsVersion =>
        /\ pc = "rendered" =>
               /\ rendered =
                      IF self.patch_group
                      THEN IntStr(self.major) \o <<".">> \o IntStr(self.minor)
                               \o <<".">> \o IntStr(self.patch)
                      ELSE IntStr(self.major) \o <<".">> \o IntStr(self.minor)
               /\ Count(rendered, ".") = (IF self.patch_group THEN 2 ELSE 1)
               /\ Range(rendered) \subseteq DigitChars \cup {"."}
        /\ pc = "compared" =>
               (equal <=>
                    /\ self.major = v1.major
                    /\ self.minor = v1.minor
                    /\ \/ ~self.patch_group /\ ~v1.patch_group
                       \/ /\ self.patch_group /\ v1.patch_group
                          /\ self.patch = v1.patch)

C9_Witness ==
    /\ pc = "compared"
    /\ cls = JenkinsVersion
    /\ ~self.patch_group
    /\ v1.patch_group /\ v1.patch = 0
    /\ self.major = v1.major /\ self.minor = v1.minor
    /\ ~equal

\* the entries that have the shape NAME=VALUE and the name JENKINS_VERSION
NamedEntries(env) ==
    {i \in 1..Len(env) :
        /\ EnvVarSearch(env[i])
        /\ SubSeq(env[i], 1, IndexFrom(env[i], "=", 1) - 1)
               = JENKINS_VERSION_ENV_VAR_NAME}

\* the whole value of an entry: everything after its first "="
WholeValue(entry) == SubSeq(entry, IndexFrom(entry, "=", 1) + 1, Len(entry))

\* C10: from_docker_image constructs the JenkinsVersion from the whole value
\* of the first entry named JENKINS_VERSION, and raises
\* NoJenkinsVersionFoundError iff no entry has that name.
C10_FirstEntryWholeValue ==
    client_calls = <<"pull", "remove">> /\ pc \in {"returned", "raised"}
        /\ exc # "APIError" =>
        LET named == NamedEntries(jenkins_env_vars)
        IN  IF named = {} THEN exc = "NoJenkinsVersionFoundError"
            ELSE LET first == CHOOSE i \in named : \A j \in named : i <= j
                     r == JenkinsInit(WholeValue(jenkins_env_vars[first]))
                 IN  exc = r.exc /\ self = r.obj

====
